---- MODULE Spec2Model ----
(***************************************************************************)
(* tahoe-backup: the reuse index (backupdb), the directory manifest and    *)
(* its hash (tahoe::client::Dir), the streaming file upload                *)
(* (tahoe::client::Tahoe::upload_file), and the traversal-upload pipeline  *)
(* with the driver (src/main.rs).                                          *)
(*                                                                         *)
(* Strings are modelled as sequences of one-character strings, so that     *)
(* as_bytes() and concatenation are what they are in the program.  An      *)
(* Option<T> is a sequence of length 0 (None) or 1 (Some).                 *)
(***************************************************************************)
EXTENDS Integers, Sequences, FiniteSets, TLC

VARIABLES
    db,         \* the index: [caps, local_files, last_upload, directories]
    hist,       \* index harness: the last index call with its result
    dirs,       \* manifest harness: two Dir values being built by push
    grown,      \* the files appended to while their body was being uploaded
    rd,         \* upload_file: the reader thread, the body channel, the request
    fs,         \* the local file system: node -> kind of entry
    phase,      \* position of run()/main(): start, walk, attach, done, exited
    run,        \* number of the current invocation of the program
    st,         \* node -> state of the future returned by upload(node)
    res,        \* node -> item the future resolved with: [ok, cap]
    nextIdx,    \* directory -> position of its read_dir iterator
    queue,      \* directory -> children in the buffered() window, launch order
    collected,  \* directory -> Vec<(name, DirNode)> collected so far
    ev,         \* node -> what upload(node) did in this run (observations)
    att,        \* the attach requests issued: set of [name, cap, st]
    recorded,   \* the (name, ro_uri) sequences add_dir recorded, with the cap
    runResult,  \* result of run(): none, ok, err
    exitCode    \* process exit status, meaningful when phase = "exited"

dbvars == <<db, hist>>
pipevars == <<dirs, grown, rd, fs, phase, run, st, res, nextIdx, queue, collected, ev, att,
              recorded, runResult, exitCode>>
vars == <<db, hist, dirs, grown, rd, fs, phase, run, st, res, nextIdx, queue, collected, ev,
          att, recorded, runResult, exitCode>>

None == <<>>
Some(x) == <<x>>

(***************************************************************************)
(* Bounds                                                                  *)
(***************************************************************************)
Threads == 2        \* --threads N (ThreadPool size, width of buffered())
MaxRuns == 2        \* invocations of the program against the same index
MaxMeta == 1        \* index harness: size, ctime and mtime in 0..MaxMeta
MaxPush == 3        \* manifest harness: push calls over the two Dir values
MaxFileLen == 5     \* upload_file: length of the file, in units
ChunkMax == 2       \* upload_file: the 1 MiB read buffer, in the same units
PoolThreads == 1    \* upload_file: threads of the pool the readers run on

(***************************************************************************)
(* backupdb: tables                                                        *)
(***************************************************************************)
EmptyDB ==
    [caps |-> {}, local_files |-> {}, last_upload |-> {}, directories |-> {}]

\* sqlite rowid of a new caps row: one more than the largest one
NextRowId(caps) ==
    IF caps = {} THEN 1
    ELSE (CHOOSE i \in {r.fileid : r \in caps} :
              \A r \in caps : r.fileid <= i) + 1

\* mutant: the id is taken to be the next rowid instead of being selected
CapId_NextRowId(caps, cap) == NextRowId(caps)

CapId(caps, cap) == (CHOOSE r \in caps : r.filecap = cap).fileid

\* the uniqueness constraint on caps.filecap rejects the insert
CapsUnique(caps, cap) == \E r \in caps : r.filecap = cap

\* the statement of add_file that returns an error, if any
AddFaults == {"none", "caps", "select", "last_upload", "local_files"}

\* caps after step 1 of add_file
InsertCap(caps, cap) ==
    IF CapsUnique(caps, cap)
    THEN caps                                  \* UniqueViolation
    ELSE caps \cup {[fileid |-> NextRowId(caps), filecap |-> cap]}

\* diesel::delete(last_upload.find(fileid)): `fileid` is the column
\* last_upload::fileid (the id just fetched is the local `id`), so the
\* filter compares the column with itself
DeleteLastUpload(rows, id) == {r \in rows : ~(r.fileid = r.fileid)}

\* mutant: the row of the path is not deleted before the insert
DeleteLocalFile_Nothing(rows, path) == rows

DeleteLocalFile(rows, path) == {r \in rows : r.path # path}

\* mutant: the two times land in each other's column
NewLocalFile_SwapTimes(id, path, size, ctime, mtime) ==
    [path |-> path, size |-> size, mtime |-> ctime, ctime |-> mtime,
     fileid |-> id]

NewLocalFile(id, path, size, ctime, mtime) ==
    [path |-> path, size |-> size, mtime |-> mtime, ctime |-> ctime,
     fileid |-> id]

\* BackupDB::add_file; no transaction, every statement commits on its own.
\* An insert fails when the statement is made to fail (fault) or when a row
\* with the same primary key is there (last_upload.fileid, local_files.path).
add_file(d, cap, path, size, ctime, mtime, fault) ==
    LET caps1 == InsertCap(d.caps, cap)
        id    == CapId(caps1, cap)
        d1    == [d EXCEPT !.caps = caps1]
        d2a   == [d1 EXCEPT !.last_upload = DeleteLastUpload(@, id)]
        pk2   == \E r \in d2a.last_upload : r.fileid = id
        d2    == [d2a EXCEPT !.last_upload = @ \cup {[fileid |-> id]}]
        d3a   == [d2 EXCEPT !.local_files = DeleteLocalFile(@, path)]
        pk3   == \E r \in d3a.local_files : r.path = path
        d3    == [d3a EXCEPT !.local_files =
                      @ \cup {NewLocalFile(id, path, size, ctime, mtime)}]
    IN  IF fault = "caps" THEN [db |-> d, ok |-> FALSE]
        ELSE IF fault = "select" THEN [db |-> d1, ok |-> FALSE]
        ELSE IF fault = "last_upload" \/ pk2 THEN [db |-> d2a, ok |-> FALSE]
        ELSE IF fault = "local_files" \/ pk3 THEN [db |-> d3a, ok |-> FALSE]
        ELSE [db |-> d3, ok |-> TRUE]

\* local_files.find(path)
PathRows(d, path) == {r \in d.local_files : r.path = path}

\* the (LocalFile, Cap) rows of local_files.find(path).inner_join(caps)
JoinedRows(d, path) ==
    {p \in {r \in d.local_files : r.path = path} \X d.caps :
        p[1].fileid = p[2].fileid}

\* mutant: only the size is compared
Stale_SizeOnly(file, size, ctime, mtime) == file.size # size

Stale(file, size, ctime, mtime) ==
    file.size # size \/ file.ctime # ctime \/ file.mtime # mtime

\* mutant: the delete is keyed by the file-id instead of the path
DeleteStale_ByFileId(rows, file) == {r \in rows : r.fileid # file.fileid}

\* diesel::delete(&file): the row with the primary key of `file`
DeleteStale(rows, file) == {r \in rows : r.path # file.path}

\* BackupDB::check_file
check_file(d, path, size, ctime, mtime) ==
    LET rows == JoinedRows(d, path)
    IN  IF rows = {} THEN [db |-> d, res |-> None]
        ELSE LET row == CHOOSE p \in rows : TRUE
             IN  IF Stale(row[1], size, ctime, mtime)
                 THEN [db |-> [d EXCEPT !.local_files =
                                  DeleteStale(@, row[1])],
                       res |-> None]
                 ELSE [db |-> d, res |-> Some(row[2].filecap)]

\* BackupDB::check_dir
check_dir(d, hash) ==
    LET rows == {r \in d.directories : r.dirhash = hash}
    IN  IF rows = {} THEN None ELSE Some((CHOOSE r \in rows : TRUE).dircap)

\* BackupDB::add_dir; fault: the insert returns an error other than a conflict
add_dir(d, hash, cap, fault) ==
    IF fault THEN [db |-> d, ok |-> FALSE]
    ELSE IF \E r \in d.directories : r.dirhash = hash
         THEN [db |-> d, ok |-> TRUE]
         ELSE [db |-> [d EXCEPT !.directories =
                          @ \cup {[dirhash |-> hash, dircap |-> cap]}],
               ok |-> TRUE]

(***************************************************************************)
(* tahoe::client: DirNode, Dir and its running hash                        *)
(***************************************************************************)
RECURSIVE Flatten(_)
Flatten(ss) == IF ss = <<>> THEN <<>> ELSE Head(ss) \o Flatten(Tail(ss))

\* ro_uri.starts_with("URI:DIR")
NodeType(ro_uri) ==
    IF Len(ro_uri) > 0 /\ Head(ro_uri) = "URI:DIR" THEN "dirnode"
    ELSE "filenode"

\* DirNode::new; meta: Option of [ctime: Option, mtime: Option]
DirNodeNew(ro_uri, meta) ==
    [type |-> NodeType(ro_uri), ro_uri |-> ro_uri,
     metadata |->
        IF meta = None THEN {}
        ELSE {<<"ctime", t>> : t \in {meta[1].ctime[i] : i \in DOMAIN meta[1].ctime}}
             \cup
             {<<"mtime", t>> : t \in {meta[1].mtime[i] : i \in DOMAIN meta[1].mtime}}]

DirNew == [inner |-> <<>>, hasher |-> <<>>]

\* mutant: the node type and the metadata are written to the hasher too
DirPush_HashNode(dir, value) ==
    [inner |-> Append(dir.inner, value),
     hasher |-> dir.hasher \o
                <<value[1], value[2].ro_uri, <<value[2].type>>,
                  <<value[2].metadata>>>>]

\* Dir::push: two writes to the hasher (name, then uri), then the entry
DirPush(dir, value) ==
    [inner |-> Append(dir.inner, value),
     hasher |-> dir.hasher \o <<value[1], value[2].ro_uri>>]

\* Dir::from_iter
RECURSIVE DirFromIter(_, _)
DirFromIter(dir, items) ==
    IF items = <<>> THEN dir
    ELSE DirFromIter(DirPush(dir, Head(items)), Tail(items))

\* SeaHasher::finish: a hash of the byte stream written so far (the stream
\* itself stands for its 64-bit hash, collisions aside)
SeaFinish(writes) == Flatten(writes)

\* Dir::hash
DirHash(dir) == SeaFinish(dir.hasher)

\* the ordered (name, ro_uri) pairs of a manifest
NameCaps(items) == [i \in DOMAIN items |-> <<items[i][1], items[i][2].ro_uri>>]

\* upload_file has not been called
NoUpload == <<>>

(***************************************************************************)
(* Index harness: any sequence of add_file and check_file calls on one     *)
(* BackupDB, with arguments drawn from small sets.                         *)
(***************************************************************************)
HarnessCaps == {<<"URI:CHK", "x">>, <<"URI:CHK", "y">>}
HarnessPaths == {1, 2}
\* (size, ctime, mtime) with at most one field that is not 0
HarnessMetas ==
    {m \in (0..MaxMeta) \X (0..MaxMeta) \X (0..MaxMeta) :
        Cardinality({i \in 1..3 : m[i] # 0}) <= 1}

\* the index file the harness opens: the one a run over an empty directory
\* leaves behind (the empty manifest recorded, no file)
HarnessDB ==
    add_dir(EmptyDB, <<>>, <<"URI:DIR">>, FALSE).db

\* before: the capability the path was bound to when add_file was called;
\* known: the capability string was already in caps; follows: this
\* check_file call comes right after a successful add_file with the same
\* path, size, ctime and mtime (cap, before and known are then that call's)
NoCall ==
    [op |-> "none", cap |-> None, path |-> 0, size |-> 0, ctime |-> 0,
     mtime |-> 0, ok |-> TRUE, res |-> None, before |-> None,
     known |-> FALSE, follows |-> FALSE, stored |-> None]

\* stored: the (size, ctime, mtime) of the row check_file found for the path
StoredMeta(d, path) ==
    IF JoinedRows(d, path) = {} THEN None
    ELSE LET file == (CHOOSE p \in JoinedRows(d, path) : TRUE)[1]
         IN  Some(<<file.size, file.ctime, file.mtime>>)

BoundCap(d, path) == {p[2].filecap : p \in JoinedRows(d, path)}

PipeIdle ==
    /\ dirs = <<DirNew, DirNew>> /\ grown = {} /\ rd = NoUpload
    /\ fs = <<>> /\ phase = "idle" /\ run = 0
    /\ st = <<>> /\ res = <<>> /\ nextIdx = <<>> /\ queue = <<>>
    /\ collected = <<>> /\ ev = <<>> /\ att = {} /\ recorded = {}
    /\ runResult = "none" /\ exitCode = 0

InitDB == db = HarnessDB /\ hist = NoCall /\ PipeIdle

DbAddFile(cap, path, m, fault) ==
    LET r == add_file(db, cap, path, m[1], m[2], m[3], fault)
    IN  /\ db' = r.db
        /\ hist' = [op |-> "add_file", cap |-> cap, path |-> path,
                    size |-> m[1], ctime |-> m[2], mtime |-> m[3],
                    ok |-> r.ok, res |-> None,
                    before |-> IF BoundCap(db, path) = {} THEN None
                               ELSE Some(CHOOSE c \in BoundCap(db, path) : TRUE),
                    known |-> \E c \in db.caps : c.filecap = cap,
                    follows |-> FALSE, stored |-> None]
        /\ UNCHANGED pipevars

DbCheckFile(path, m) ==
    LET r == check_file(db, path, m[1], m[2], m[3])
        follows == /\ hist.op = "add_file" /\ hist.ok /\ hist.path = path
                   /\ <<hist.size, hist.ctime, hist.mtime>> = m
    IN  /\ db' = r.db
        /\ hist' = [op |-> "check_file", path |-> path,
                    size |-> m[1], ctime |-> m[2], mtime |-> m[3],
                    ok |-> TRUE, res |-> r.res, follows |-> follows,
                    cap |-> IF follows THEN hist.cap ELSE None,
                    before |-> IF follows THEN hist.before ELSE None,
                    known |-> IF follows THEN hist.known ELSE FALSE,
                    stored |-> StoredMeta(db, path)]
        /\ UNCHANGED pipevars

NextDB ==
    \/ \E cap \in HarnessCaps, path \in HarnessPaths, m \in HarnessMetas,
          fault \in AddFaults : DbAddFile(cap, path, m, fault)
    \/ \E path \in HarnessPaths, m \in HarnessMetas : DbCheckFile(path, m)

SpecDB == InitDB /\ [][NextDB]_vars

\* the sequences of calls in which no statement of add_file fails
NextDBOk ==
    \/ \E cap \in HarnessCaps, path \in HarnessPaths, m \in HarnessMetas :
          DbAddFile(cap, path, m, "none")
    \/ \E path \in HarnessPaths, m \in HarnessMetas : DbCheckFile(path, m)

SpecDBOk == InitDB /\ [][NextDBOk]_vars

(***************************************************************************)
(* Manifest harness: two Dir values built by any push calls, with names,   *)
(* capabilities and metadata drawn from small sets.                        *)
(***************************************************************************)
\* file names; ':' is an ordinary character of a file name
DirNames == {<<"a">>, <<"b">>, <<"a", "URI:CHK", "x", "b">>}
DirCaps == {<<"URI:CHK", "x">>, <<"URI:DIR", "y">>}
\* entry.metadata(): failed, with both times, without birth time
DirMetas ==
    {None, Some([ctime |-> Some(1), mtime |-> Some(2)]),
     Some([ctime |-> None, mtime |-> Some(3)])}

InitDir ==
    /\ db = EmptyDB /\ hist = NoCall /\ PipeIdle

Push(i, name, cap, meta) ==
    /\ Len(dirs[1].inner) + Len(dirs[2].inner) < MaxPush
    /\ dirs' = [dirs EXCEPT ![i] = DirPush(@, <<name, DirNodeNew(cap, meta)>>)]
    /\ UNCHANGED <<db, hist, grown, rd, fs, phase, run, st, res, nextIdx,
                   queue, collected, ev, att, recorded, runResult, exitCode>>

NextDir ==
    \E i \in {1, 2}, name \in DirNames, cap \in DirCaps, meta \in DirMetas :
        Push(i, name, cap, meta)

SpecDir == InitDir /\ [][NextDir]_vars

(***************************************************************************)
(* tahoe::client::upload_file: the reader thread of the pool, the channel  *)
(* of Body::pair() and the PUT request that sends the body                 *)
(***************************************************************************)
\* messages the channel of Body::pair() holds before the sender is parked
ChanSlots == 1

\* upload_file was called on a file of `len` units: the job is queued on the
\* pool, the request is made.  tx/rx: the two ends of the channel; chan: the
\* chunks queued; hand: the chunk the reader holds in send(); err: how the
\* reader's loop was left on an error; produced, accepted, taken and sent
\* count chunks read, chunks the channel accepted, chunks the request took,
\* and units the request sent
NewUpload(len) ==
    [pc |-> "queued", left |-> len, hand |-> 0, chan |-> <<>>, tx |-> "open",
     rx |-> "open", http |-> "sending", err |-> "none", produced |-> 0,
     accepted |-> 0, taken |-> 0, sent |-> 0]

\* the upload_file calls made so far, in call order
Uploads == DOMAIN rd

\* the threads of the pool that run a reader
Busy == {u \in Uploads : rd[u].pc \in {"read", "send"}}

\* what file.read(&mut buf) returns with `left` units to the end of file
ReadSizes(left) == {n \in 1..ChunkMax : n <= left}

\* mutant: the reader does not wait for the channel to accept the chunk
ChannelReady_NoWait(chan) == TRUE

\* tx_body.send(Ok(chunk)).wait() returns Ok: the channel accepted the chunk
ChannelReady(chan) == Len(chan) < ChanSlots

\* mutant: the body outlives the request
BodyAfterRequest_Kept == "open"

\* the request owns the Body: the receiving end is dropped with the request
BodyAfterRequest == "dropped"

\* the states without an index, a manifest and a walk
NoPipeline ==
    /\ db = EmptyDB /\ hist = NoCall
    /\ dirs = <<DirNew, DirNew>> /\ grown = {}
    /\ fs = <<>> /\ phase = "idle" /\ run = 0
    /\ st = <<>> /\ res = <<>> /\ nextIdx = <<>> /\ queue = <<>>
    /\ collected = <<>> /\ ev = <<>> /\ att = {} /\ recorded = {}
    /\ runResult = "none" /\ exitCode = 0

\* one upload_file call, on a file of any length
InitReader ==
    /\ rd \in {<<NewUpload(len)>> : len \in 0..MaxFileLen}
    /\ NoPipeline

RdFrame ==
    UNCHANGED <<db, hist, dirs, grown, fs, phase, run, st, res, nextIdx,
                queue, collected, ev, att, recorded, runResult, exitCode>>

\* a free thread of the pool takes the oldest job
ReaderStart(u) ==
    /\ rd[u].pc = "queued"
    /\ Cardinality(Busy) < PoolThreads
    /\ \A v \in Uploads : v < u => rd[v].pc # "queued"
    /\ rd' = [rd EXCEPT ![u].pc = "read"]
    /\ RdFrame

\* file.read returns Ok(n), n > 0: the chunk is made
ReadChunk(u, n) ==
    /\ rd[u].pc = "read" /\ n \in ReadSizes(rd[u].left)
    /\ rd' = [rd EXCEPT ![u].pc = "send", ![u].hand = n, ![u].left = @ - n,
                        ![u].produced = @ + 1]
    /\ RdFrame

\* file.read returns Ok(0): the channel is closed and the thread ends
ReadEof(u) ==
    /\ rd[u].pc = "read" /\ rd[u].left = 0
    /\ rd' = [rd EXCEPT ![u].pc = "done", ![u].tx = "closed"]
    /\ RdFrame

\* file.read returns Err: the thread ends, tx_body is dropped with it
ReadErr(u) ==
    /\ rd[u].pc = "read"
    /\ rd' = [rd EXCEPT ![u].pc = "done", ![u].tx = "dropped",
                        ![u].err = "read"]
    /\ RdFrame

\* send(..).wait() returns Ok: the chunk is in the channel
SendOk(u) ==
    /\ rd[u].pc = "send" /\ rd[u].rx = "open"
    /\ ChannelReady(rd[u].chan)
    /\ rd' = [rd EXCEPT ![u].pc = "read", ![u].chan = Append(@, rd[u].hand),
                        ![u].hand = 0, ![u].accepted = @ + 1]
    /\ RdFrame

\* send(..).wait() returns Err: the receiving end is gone
SendErr(u) ==
    /\ rd[u].pc = "send" /\ rd[u].rx = "dropped"
    /\ rd' = [rd EXCEPT ![u].pc = "done", ![u].hand = 0,
                        ![u].tx = "dropped", ![u].err = "send"]
    /\ RdFrame

\* the request takes the next chunk of its body and sends it
TakeChunk(u) ==
    /\ rd[u].http = "sending" /\ rd[u].chan # <<>>
    /\ rd' = [rd EXCEPT ![u].chan = Tail(@), ![u].taken = @ + 1,
                        ![u].sent = @ + Head(rd[u].chan)]
    /\ RdFrame

\* the body has ended (closed or dropped sender, nothing queued): the
\* request is complete and the store answers
Respond(u, accepted) ==
    /\ rd[u].http = "sending" /\ rd[u].chan = <<>> /\ rd[u].tx # "open"
    /\ rd' = [rd EXCEPT ![u].http = IF accepted THEN "ok" ELSE "failed",
                        ![u].rx = BodyAfterRequest]
    /\ RdFrame

\* the request fails, or is answered, before its body has ended
RequestFail(u) ==
    /\ rd[u].http = "sending"
    /\ rd' = [rd EXCEPT ![u].http = "failed", ![u].rx = BodyAfterRequest,
                        ![u].chan = <<>>]
    /\ RdFrame

\* the future upload_file returned is dropped by its parent
DropUpload(u) ==
    /\ rd[u].http = "sending"
    /\ rd' = [rd EXCEPT ![u].http = "dropped", ![u].rx = BodyAfterRequest,
                        ![u].chan = <<>>]
    /\ RdFrame

\* the steps of the reader thread of upload u
ReaderStep(u) ==
    \/ \E n \in 1..ChunkMax : ReadChunk(u, n)
    \/ ReadEof(u)
    \/ ReadErr(u)
    \/ SendOk(u)
    \/ SendErr(u)

NextReader ==
    \/ \E u \in Uploads : ReaderStart(u)
    \/ \E u \in Uploads, n \in 1..ChunkMax : ReadChunk(u, n)
    \/ \E u \in Uploads : ReadEof(u)
    \/ \E u \in Uploads : ReadErr(u)
    \/ \E u \in Uploads : SendOk(u)
    \/ \E u \in Uploads : SendErr(u)
    \/ \E u \in Uploads : TakeChunk(u)
    \/ \E u \in Uploads, accepted \in BOOLEAN : Respond(u, accepted)
    \/ \E u \in Uploads : RequestFail(u)
    \/ \E u \in Uploads : DropUpload(u)

SpecReader == InitReader /\ [][NextReader]_vars

\* one upload more than the pool has threads, all in flight: empty files
\* and files of one unit more than the channel holds chunks
PoolUploads == 1..(PoolThreads + 1)
PoolLens == {0, ChanSlots + 1}
InitPool ==
    /\ rd \in [PoolUploads -> {NewUpload(len) : len \in PoolLens}]
    /\ \A u, v \in PoolUploads : u <= v => rd[u].left >= rd[v].left
    /\ NoPipeline

\* the pool's threads run, and the store takes the bodies it is sent and
\* answers the requests whose body has ended
FairPool ==
    \A u \in PoolUploads :
        /\ WF_vars(ReaderStart(u))
        /\ WF_vars(ReaderStep(u))
        /\ WF_vars(TakeChunk(u))
        /\ WF_vars(\E accepted \in BOOLEAN : Respond(u, accepted))

SpecPool == InitPool /\ [][NextReader]_vars /\ FairPool

(***************************************************************************)
(* The local tree and the store                                            *)
(***************************************************************************)
Nodes == 1..9
Root == 1

\* read_dir enumeration order of each directory
Children(n) ==
    CASE n = 1 -> <<2, 3, 4, 5>>
      [] n = 3 -> <<6, 7>>
      [] n = 4 -> <<9>>
      [] n = 5 -> <<8>>
      [] OTHER -> <<>>

ChildSet(n) == {Children(n)[i] : i \in DOMAIN Children(n)}
Parent(n) == IF n = Root THEN Root ELSE CHOOSE d \in Nodes : n \in ChildSet(d)

RECURSIVE Ancestors(_)
Ancestors(n) ==
    IF n = Root THEN {} ELSE {Parent(n)} \cup Ancestors(Parent(n))

\* entry.path().file_name()
Name(n) ==
    CASE n = 2 -> <<"a">>
      [] n = 3 -> <<"s", "u", "b">>
      [] n = 4 -> <<"e">>
      [] n = 5 -> <<"b", ".", "t", "m", "p">>
      [] n = 6 -> <<"c">>
      [] n = 7 -> <<"d">>
      [] n = 8 -> <<"f">>
      [] n = 9 -> <<"t", ".", "t", "m", "p">>
      [] OTHER -> <<"r", "o", "o", "t">>

Path(n) == n

\* globs.is_match(entry.path()) with --exclude '*.tmp'
GlobMatch(n) == n \in {5, 9}

\* mutant: no entry is filtered out
Excluded_Never(n) == FALSE

\* the entries .filter(|entry| ..) drops from the read_dir stream
Excluded(n) == GlobMatch(n)

\* file contents; 6 and 7 hold the same bytes
Content(n) == CASE n \in {6, 7} -> "y" [] n = 4 -> "z" [] OTHER -> "x"

\* fs::Metadata of an entry; node 6 lies on a file system without birth
\* time; a file that was appended to is one unit longer
Meta(n) ==
    [size |-> IF n \in grown THEN 2 ELSE 1,
     ctime |-> IF n = 6 THEN None ELSE Some(1), mtime |-> Some(2)]

Kinds ==
    {"file", "file_noopen", "dir", "dir_noread", "symlink", "metaerr",
     "special", "absent"}

\* a tree: the kinds of the root, of entry 4 and of entry 7; entry 5 is the
\* directory b.tmp holding the file f; entry 9 (t.tmp) is there when entry 4
\* is a directory
Tree(k1, k4, k7) ==
    [n \in Nodes |->
        CASE n = 1 -> k1 [] n = 3 -> "dir" [] n = 4 -> k4 [] n = 7 -> k7
          [] n = 5 -> "dir"
          [] n = 9 -> IF k4 = "dir" THEN "file" ELSE "absent"
          [] OTHER -> "file"]

\* the trees the runs are made on
Trees ==
    {Tree("dir", "file", "file"), Tree("dir", "file_noopen", "file"),
     Tree("dir", "symlink", "metaerr"), Tree("dir", "dir_noread", "symlink"),
     Tree("dir", "special", "file_noopen"), Tree("dir", "metaerr", "special"),
     Tree("dir_noread", "file", "file"), Tree("dir", "dir", "file")}

\* the index failures drawn in the runs (the harness draws all of AddFaults)
RunFaults == {"none", "last_upload"}

\* the store's answer to a file PUT: a capability derived from the bytes
\* read, the appended ones included
StoreFileCap(n) ==
    <<"URI:CHK", Content(n)>> \o (IF n \in grown THEN <<"+">> ELSE <<>>)

\* the store's answer to a mkdir-immutable POST: derived from the manifest
StoreDirCap(dir) ==
    <<"URI:DIR">> \o
    Flatten([i \in DOMAIN dir.inner |->
                <<"/">> \o dir.inner[i][1] \o <<"=">> \o dir.inner[i][2].ro_uri])

(***************************************************************************)
(* main.rs: upload                                                         *)
(***************************************************************************)
NoRes == [ok |-> FALSE, cap |-> None, err |-> "none"]
Ok(cap) == [ok |-> TRUE, cap |-> cap, err |-> "none"]
Err(e) == [ok |-> FALSE, cap |-> None, err |-> e]

\* size: the `size` upload() took from the metadata and moved into the
\* closure that calls add_file
NoEv == [did |-> {}, hit |-> None, size |-> 0]

\* FileTime::from_creation_time(..).unwrap_or(FileTime::zero())
CtimeOrZero(m) == IF m.ctime = None THEN 0 ELSE m.ctime[1]

\* mutant: the index answer is ignored and the file is always uploaded
ReuseHit_Never(c) == FALSE

\* if let Some(cap) = db.check_file(..)
ReuseHit(c) == c # None

\* upload() up to the point where it returns its future: what the future is
\* (st, res), the index after the call, and what was done
upload(d, n, kind) ==
    CASE kind = "metaerr" ->
            [st |-> "ready", res |-> Err("ReadMetadata"), db |-> d, ev |-> NoEv]
      [] kind = "symlink" ->
            [st |-> "ready", res |-> Err("symlink"), db |-> d, ev |-> NoEv]
      [] kind \in {"file", "file_noopen"} ->
            LET m == Meta(n)
                c == check_file(d, Path(n), m.size, CtimeOrZero(m), m.mtime[1])
            IN  IF ReuseHit(c.res)
                THEN [st |-> "ready", res |-> Ok(c.res[1]), db |-> c.db,
                      ev |-> [did |-> {"check_file"}, hit |-> c.res,
                              size |-> m.size]]
                ELSE IF kind = "file_noopen"
                THEN [st |-> "ready", res |-> Err("FileOpen"), db |-> c.db,
                      ev |-> [did |-> {"check_file", "open"}, hit |-> c.res,
                              size |-> m.size]]
                ELSE [st |-> "put", res |-> NoRes, db |-> c.db,
                      ev |-> [did |-> {"check_file", "open", "put"},
                              hit |-> c.res, size |-> m.size]]
      [] kind = "dir_noread" ->
            [st |-> "ready", res |-> Err("read_dir"), db |-> d, ev |-> NoEv]
      [] kind = "dir" ->
            [st |-> "collect", res |-> NoRes, db |-> d, ev |-> NoEv]
      [] OTHER ->
            [st |-> "ready", res |-> Err("UnknownFile"), db |-> d, ev |-> NoEv]

IsDir(n) == fs[n] = "dir"

\* the children the filtered read_dir iterator has handed out so far
Launched(d) ==
    SelectSeq(SubSeq(Children(d), 1, nextIdx[d] - 1), LAMBDA c : ~Excluded(c))

\* position of the next entry the filtered iterator hands out, or 0
NextEntry(d) ==
    LET cand == {i \in DOMAIN Children(d) :
                    i >= nextIdx[d] /\ ~Excluded(Children(d)[i])}
    IN  IF cand = {} THEN 0
        ELSE CHOOSE i \in cand : \A j \in cand : i <= j

\* mutant: the window takes one future too many
CanLaunch_OffByOne(d) == Len(queue[d]) <= Threads

\* Buffered::poll: room in the window of client.threads() futures
CanLaunch(d) == Len(queue[d]) < Threads

\* mutant: items are handed on as they complete (buffer_unordered)
BufferedNext_Unordered(q) == {q[i] : i \in {j \in DOMAIN q : st[q[j]] = "ready"}}

\* Buffered::poll: the future whose item is handed on next
BufferedNext(q) ==
    IF q # <<>> /\ st[Head(q)] = "ready" THEN {Head(q)} ELSE {}

\* mutant: the stream ends with the iterator, children still in flight
StreamEnded_IterOnly(d) == NextEntry(d) = 0

\* the stream has ended: collect() resolves
StreamEnded(d) == NextEntry(d) = 0 /\ queue[d] = <<>>

\* mutant: a failed child is kept, with the empty capability
OkOrLog_KeepFailed(c, r) == <<<<Name(c), DirNodeNew(r.cap, Some(Meta(c)))>>>>

\* .filter_map(ok_or_log): the item kept for a child's result
OkOrLog(c, r) ==
    IF r.ok THEN <<<<Name(c), DirNodeNew(r.cap, Some(Meta(c)))>>>> ELSE <<>>

\* mutant: the index error becomes the result of the upload
Inspected_Propagate(cap, indexed) ==
    IF indexed THEN Ok(cap) ELSE Err("index")

\* .inspect(|cap| { ok_or_log(db.add_file(..)) / ok_or_log(db.add_dir(..)) })
\* followed by .map(Ok): the item of the future after the index call
Inspected(cap, indexed) == Ok(cap)

\* what is noted of the index call made in inspect()
IndexEv(call, indexed) == IF indexed THEN {call} ELSE {call, "index_err"}

\* mutant: the directory is always posted
DirReuse_Never(c) == FALSE

\* match db.check_dir(hash) in upload_dir
DirReuse(c) == c # None

\* mutant: the attaches are made whatever the root upload returned
RootCap_Unchecked(r) == Some(r.cap)

\* res.map(|cap| ..) in run(): the capability the attaches are made with
RootCap(r) == IF r.ok THEN Some(r.cap) ELSE None

\* the two attach calls of run()
AttachRequests(cap) ==
    {[name |-> "Archives/<now>", cap |-> cap, st |-> "pending"],
     [name |-> "Latest", cap |-> cap, st |-> "pending"]}

(***************************************************************************)
(* The run: main, run, and the future tree driven by core.run              *)
(***************************************************************************)
FreshWalk ==
    /\ st' = [n \in Nodes |-> "idle"]
    /\ res' = [n \in Nodes |-> NoRes]
    /\ nextIdx' = [n \in Nodes |-> 1]
    /\ queue' = [n \in Nodes |-> <<>>]
    /\ collected' = [n \in Nodes |-> <<>>]
    /\ ev' = [n \in Nodes |-> NoEv]
    /\ att' = {}
    /\ runResult' = "none"
    /\ exitCode' = 0

Init ==
    /\ db = EmptyDB /\ hist = NoCall /\ recorded = {}
    /\ dirs = <<DirNew, DirNew>> /\ grown = {} /\ rd = NoUpload
    /\ fs \in Trees
    /\ phase = "start" /\ run = 1
    /\ st = [n \in Nodes |-> "idle"]
    /\ res = [n \in Nodes |-> NoRes]
    /\ nextIdx = [n \in Nodes |-> 1]
    /\ queue = [n \in Nodes |-> <<>>]
    /\ collected = [n \in Nodes |-> <<>>]
    /\ ev = [n \in Nodes |-> NoEv]
    /\ att = {}
    /\ runResult = "none"
    /\ exitCode = 0

\* the effect of calling upload() for node n
Call(n) ==
    LET u == upload(db, n, fs[n])
    IN  /\ st' = [st EXCEPT ![n] = u.st]
        /\ res' = [res EXCEPT ![n] = u.res]
        /\ ev' = [ev EXCEPT ![n] = u.ev]
        /\ db' = u.db

\* run() up to core.run: BackupDB::new(..).unwrap() panics when the index
\* cannot be opened; otherwise upload() is called for the root
Startup(dbok) ==
    /\ phase = "start"
    /\ IF dbok
       THEN /\ Call(Root)
            /\ phase' = "walk"
            /\ UNCHANGED exitCode
       ELSE /\ phase' = "exited"
            /\ exitCode' = 101
            /\ UNCHANGED <<st, res, ev, db>>
    /\ UNCHANGED <<hist, dirs, grown, rd, fs, run, nextIdx, queue, collected, att, recorded,
                   runResult>>

\* Buffered::poll takes the next entry of directory d and calls upload()
Launch(d) ==
    /\ phase = "walk" /\ st[d] = "collect"
    /\ CanLaunch(d)
    /\ NextEntry(d) # 0
    /\ LET i == NextEntry(d)
           c == Children(d)[i]
       IN  /\ Call(c)
           /\ nextIdx' = [nextIdx EXCEPT ![d] = i + 1]
           /\ queue' = [queue EXCEPT ![d] = Append(@, c)]
    /\ UNCHANGED <<hist, dirs, grown, rd, fs, phase, run, collected, att, recorded, runResult,
                   exitCode>>

\* Buffered hands a finished child's item on; filter_map(ok_or_log) and
\* collect() keep it or log it
Yield(d) ==
    /\ phase = "walk" /\ st[d] = "collect"
    /\ \E c \in BufferedNext(queue[d]) :
          /\ queue' = [queue EXCEPT ![d] = SelectSeq(@, LAMBDA x : x # c)]
          /\ collected' = [collected EXCEPT ![d] = @ \o OkOrLog(c, res[c])]
    /\ UNCHANGED <<db, hist, dirs, grown, rd, fs, phase, run, st, res, nextIdx, ev, att,
                   recorded, runResult, exitCode>>

\* collect() resolved: the Dir is built and upload_dir is called
DirFinish(d) ==
    /\ phase = "walk" /\ st[d] = "collect"
    /\ StreamEnded(d)
    /\ LET dir == DirFromIter(DirNew, collected[d])
           c   == check_dir(db, DirHash(dir))
       IN  IF DirReuse(c)
           THEN /\ st' = [st EXCEPT ![d] = "ready"]
                /\ res' = [res EXCEPT ![d] = Ok(c[1])]
                /\ ev' = [ev EXCEPT ![d] =
                            [did |-> {"check_dir"}, hit |-> c, size |-> 0]]
           ELSE /\ st' = [st EXCEPT ![d] = "post"]
                /\ res' = res
                /\ ev' = [ev EXCEPT ![d] =
                            [did |-> {"check_dir", "post"}, hit |-> c,
                             size |-> 0]]
    /\ UNCHANGED <<db, hist, dirs, grown, rd, fs, phase, run, nextIdx, queue, collected, att,
                   recorded, runResult, exitCode>>

\* an Error of the future of node n: it is the Error of every future above
\* it, up to core.run; everything still in flight is dropped
HardFail(n) ==
    /\ st' = [m \in Nodes |->
                IF m = n \/ m \in Ancestors(n) THEN "failed"
                ELSE IF st[m] \in {"put", "collect", "post"} THEN "dropped"
                ELSE st[m]]
    /\ phase' = "done"
    /\ runResult' = "err"

\* the store answers the file PUT of node n
PutResolve(n, accepted, fault) ==
    /\ phase = "walk" /\ st[n] = "put"
    /\ IF accepted
       THEN LET cap == StoreFileCap(n)
                m   == Meta(n)
                a   == add_file(db, cap, Path(n), ev[n].size, CtimeOrZero(m),
                                m.mtime[1], fault)
            IN  /\ db' = a.db
                /\ st' = [st EXCEPT ![n] = "ready"]
                /\ res' = [res EXCEPT ![n] = Inspected(cap, a.ok)]
                /\ ev' = [ev EXCEPT ![n].did = @ \cup IndexEv("add_file", a.ok)]
                /\ UNCHANGED <<phase, runResult>>
       ELSE /\ fault = "none"
            /\ HardFail(n)
            /\ ev' = [ev EXCEPT ![n].did = @ \cup {"put_rejected"}]
            /\ UNCHANGED <<db, res>>
    /\ UNCHANGED <<hist, dirs, grown, rd, fs, run, nextIdx, queue, collected, att, recorded,
                   exitCode>>

\* the store answers the mkdir-immutable POST of directory d
PostResolve(d, accepted, fault) ==
    /\ phase = "walk" /\ st[d] = "post"
    /\ IF accepted
       THEN LET dir == DirFromIter(DirNew, collected[d])
                cap == StoreDirCap(dir)
                a   == add_dir(db, DirHash(dir), cap, fault)
            IN  /\ db' = a.db
                /\ recorded' =
                     IF a.db # db
                     THEN recorded \cup
                          {[seq |-> NameCaps(dir.inner), cap |-> cap]}
                     ELSE recorded
                /\ st' = [st EXCEPT ![d] = "ready"]
                /\ res' = [res EXCEPT ![d] = Inspected(cap, a.ok)]
                /\ ev' = [ev EXCEPT ![d].did = @ \cup IndexEv("add_dir", a.ok)]
                /\ UNCHANGED <<phase, runResult>>
       ELSE /\ ~fault
            /\ HardFail(d)
            /\ ev' = [ev EXCEPT ![d].did = @ \cup {"post_rejected"}]
            /\ UNCHANGED <<db, res, recorded>>
    /\ UNCHANGED <<hist, dirs, grown, rd, fs, run, nextIdx, queue, collected, att, exitCode>>

\* the root future resolved: both attaches are made, or run() fails
RootDone ==
    /\ phase = "walk" /\ st[Root] = "ready"
    /\ LET cap == RootCap(res[Root])
       IN  IF cap # None
           THEN /\ att' = AttachRequests(cap[1])
                /\ phase' = "attach"
                /\ UNCHANGED runResult
           ELSE /\ phase' = "done"
                /\ runResult' = "err"
                /\ UNCHANGED att
    /\ UNCHANGED <<db, hist, dirs, grown, rd, fs, run, st, res, nextIdx, queue, collected, ev,
                   recorded, exitCode>>

\* the store answers an attach PUT; Join fails with the first error and drops
\* the other request, and succeeds when both have succeeded
AttachResolve(name, accepted) ==
    /\ phase = "attach"
    /\ \E r \in att :
          /\ r.name = name /\ r.st = "pending"
          /\ IF accepted
             THEN /\ att' = (att \ {r}) \cup {[r EXCEPT !.st = "ok"]}
                  /\ IF \A o \in att \ {r} : o.st = "ok"
                     THEN phase' = "done" /\ runResult' = "ok"
                     ELSE UNCHANGED <<phase, runResult>>
             ELSE /\ att' = {[r EXCEPT !.st = "failed"]} \cup
                            {IF o.st = "pending"
                             THEN [o EXCEPT !.st = "dropped"] ELSE o :
                               o \in att \ {r}}
                  /\ phase' = "done"
                  /\ runResult' = "err"
    /\ UNCHANGED <<db, hist, dirs, grown, rd, fs, run, st, res, nextIdx, queue, collected, ev,
                   recorded, exitCode>>

\* main: run().map_err(log_err).ok(); then main returns and the process
\* ends: the futures and what they held are gone, the requests made stay made
Exit ==
    /\ phase = "done"
    /\ phase' = "exited"
    /\ exitCode' = 0
    /\ st' = [n \in Nodes |-> "idle"]
    /\ res' = [n \in Nodes |-> NoRes]
    /\ nextIdx' = [n \in Nodes |-> 1]
    /\ queue' = [n \in Nodes |-> <<>>]
    /\ collected' = [n \in Nodes |-> <<>>]
    /\ ev' = [n \in Nodes |-> NoEv]
    /\ UNCHANGED <<db, hist, dirs, grown, rd, fs, run, att, recorded, runResult>>

\* the program is run again on the same tree with the same index file
NextRun ==
    /\ phase = "exited" /\ exitCode = 0
    /\ run < MaxRuns
    /\ run' = run + 1
    /\ phase' = "start"
    /\ FreshWalk
    /\ UNCHANGED <<db, hist, dirs, grown, rd, fs, recorded>>

Next ==
    \/ \E dbok \in BOOLEAN : Startup(dbok)
    \/ \E d \in Nodes : Launch(d)
    \/ \E d \in Nodes : Yield(d)
    \/ \E d \in Nodes : DirFinish(d)
    \/ \E n \in Nodes, accepted \in BOOLEAN, fault \in RunFaults :
          PutResolve(n, accepted, fault)
    \/ \E d \in Nodes, accepted \in BOOLEAN, fault \in BOOLEAN :
          PostResolve(d, accepted, fault)
    \/ RootDone
    \/ \E name \in {"Archives/<now>", "Latest"}, accepted \in BOOLEAN :
          AttachResolve(name, accepted)
    \/ Exit
    \/ NextRun

Spec == Init /\ [][Next]_vars

\* another program appends to file n while its body is being uploaded
Grow(n) ==
    /\ phase = "walk" /\ st[n] = "put"
    /\ n \notin grown
    /\ grown' = grown \cup {n}
    /\ UNCHANGED <<db, hist, dirs, rd, fs, phase, run, st, res, nextIdx,
                   queue, collected, ev, att, recorded, runResult, exitCode>>

\* the runs on the tree of regular files, with files that grow
InitGrow == Init /\ fs = Tree("dir", "file", "file")
NextGrow == Next \/ Grow(2)
SpecGrow == InitGrow /\ [][NextGrow]_vars

(***************************************************************************)
(* Properties                                                              *)
(***************************************************************************)
IsFile(n) == fs[n] \in {"file", "file_noopen"}

\* the launched children of d whose upload returned a capability, in launch
\* order, as (name, capability) pairs
Survivors(d) == SelectSeq(Launched(d), LAMBDA c : res[c].ok)
SurvivorPairs(d) ==
    [i \in DOMAIN Survivors(d) |->
        <<Name(Survivors(d)[i]), res[Survivors(d)[i]].cap>>]

Outstanding(d) ==
    {c \in ChildSet(d) : st[c] \in {"put", "collect", "post", "dropped"}}
Completed(d) == {c \in ChildSet(d) : st[c] \in {"ready", "failed"}}

\* C1: when the store rejects the file PUT of one child, only that child
\* fails, with FileUpload as a logged omission: no sibling is dropped before
\* it completes and the parent directory does not fail
C1_RejectedUploadIsLocal ==
    \A n \in Nodes :
        "put_rejected" \in ev[n].did =>
            /\ st[n] = "ready" /\ res[n] = Err("FileUpload")
            /\ \A s \in ChildSet(Parent(n)) \ {n} : st[s] # "dropped"
            /\ st[Parent(n)] \notin {"failed", "dropped"}

\* C2: in every directory whose manifest has been built, the manifest holds
\* exactly the children whose upload returned a capability (a child that
\* failed locally is not in it), and a directory fails only when the store
\* rejected a request of its own subtree, never because of a local failure
C2_LocalFailureOmitted ==
    \A d \in Nodes :
        /\ (IsDir(d) /\ st[d] \in {"post", "ready"}) =>
              /\ NameCaps(collected[d]) = SurvivorPairs(d)
              /\ \A c \in ChildSet(d) :
                    res[c].err # "none" =>
                        \A i \in DOMAIN collected[d] :
                            collected[d][i][1] # Name(c)
        /\ st[d] = "failed" =>
              \E n \in Nodes :
                  /\ n = d \/ d \in Ancestors(n)
                  /\ ev[n].did \cap {"put_rejected", "post_rejected"} # {}

C2_Witness ==
    /\ st[Root] = "ready" /\ res[Root].ok
    /\ res[3].ok /\ res[4].err = "symlink" /\ res[7].err = "ReadMetadata"
    /\ Len(collected[Root]) = 2 /\ Len(collected[3]) = 1

\* C3: the process ends with exit status 0 exactly when the root upload and
\* both attaches succeeded, and with a non-zero status otherwise
C3_ExitStatus ==
    phase = "exited" => (exitCode = 0 <=> runResult = "ok")

\* C4: no attach request exists before the root upload returned a capability
\* nor when it failed; when it succeeded there are exactly two, named
\* Archives/<timestamp> and Latest, both carrying the root capability; the
\* run is successful only when both succeeded
C4_AttachAfterRoot ==
    /\ phase \in {"start", "walk"} => att = {}
    /\ (phase = "done" /\ ~(st[Root] = "ready" /\ res[Root].ok)) => att = {}
    /\ (phase \in {"attach", "done"} /\ st[Root] = "ready" /\ res[Root].ok) =>
          /\ Cardinality(att) = 2
          /\ {r.name : r \in att} = {"Archives/<now>", "Latest"}
          /\ \A r \in att : r.cap = res[Root].cap
    /\ phase = "attach" => st[Root] = "ready" /\ res[Root].ok
    /\ runResult = "ok" =>
          /\ Cardinality(att) = 2
          /\ \A r \in att : r.st = "ok"

C4_Witness ==
    /\ phase = "done" /\ runResult = "ok"
    /\ \A r \in att : r.st = "ok" /\ r.cap = res[Root].cap

\* C5: in every state the items collected for a directory are those of the
\* children handed on so far, in launch order, with the failed ones left
\* out, and the hash of the Dir built from them is the hash of exactly that
\* sequence, whatever the order in which the children completed
C5_ManifestInLaunchOrder ==
    \A d \in Nodes :
        IsDir(d) =>
            LET handed == SelectSeq(Survivors(d),
                                    LAMBDA c : \A i \in DOMAIN queue[d] :
                                                   queue[d][i] # c)
                pairs  == [i \in DOMAIN handed |->
                              <<Name(handed[i]), res[handed[i]].cap>>]
            IN  /\ NameCaps(collected[d]) = pairs
                /\ DirHash(DirFromIter(DirNew, collected[d])) =
                     Flatten([i \in DOMAIN pairs |-> pairs[i][1] \o pairs[i][2]])

\* a later child has completed while the one launched before it has not
C5_Witness ==
    \E d \in Nodes :
        /\ IsDir(d) /\ Len(queue[d]) = 2
        /\ st[queue[d][1]] = "put"
        /\ st[queue[d][2]] = "ready" /\ res[queue[d][2]].ok

\* C6: every directory has at most Threads children launched and not yet
\* completed, so child k + Threads is launched only after k have completed
C6_BoundedWindow ==
    \A d \in Nodes :
        /\ Cardinality(Outstanding(d)) <= Threads
        /\ Len(Launched(d)) - Cardinality(Completed(d)) <= Threads

C6_Witness ==
    /\ Len(Launched(Root)) = Threads + 1
    /\ Cardinality(Outstanding(Root)) = Threads
    /\ Cardinality(Completed(Root)) = 1

\* C7: check_dir and the directory POST of a directory happen only when
\* every child of it that is not excluded has finished
C7_PostOrder ==
    \A d \in Nodes :
        "check_dir" \in ev[d].did =>
            \A c \in ChildSet(d) : ~Excluded(c) => st[c] = "ready"

C7_Witness ==
    /\ st[Root] = "post" /\ "post" \in ev[3].did /\ res[3].ok
    /\ Len(collected[Root]) = 3

\* C8: a file for which check_file returned Some(cap) resolves to that cap
\* with no open, no PUT and no add_file; a PUT is made only for a file for
\* which check_file returned None in this run
C8_ReuseHitNoStore ==
    \A n \in Nodes :
        IsFile(n) =>
            /\ ev[n].hit # None =>
                  /\ st[n] = "ready" /\ res[n] = Ok(ev[n].hit[1])
                  /\ ev[n].did = {"check_file"}
            /\ "put" \in ev[n].did =>
                  "check_file" \in ev[n].did /\ ev[n].hit = None

C8_Witness ==
    /\ run = 2 /\ ev[2].hit = Some(StoreFileCap(2))
    /\ st[2] = "ready" /\ "put" \in ev[6].did

\* C9: when upload_dir is called for a manifest whose (name, capability)
\* sequence add_dir has recorded before, check_dir finds the recorded
\* capability, that capability is returned and no POST is made
C9_RecordedDirReused ==
    [][\A d \in Nodes :
          ("check_dir" \notin ev[d].did /\ "check_dir" \in ev'[d].did) =>
              \A r \in recorded :
                  r.seq = NameCaps(collected[d]) =>
                      /\ st'[d] = "ready" /\ res'[d] = Ok(r.cap)
                      /\ ev'[d].hit = Some(r.cap)
                      /\ "post" \notin ev'[d].did]_vars

C9_Witness ==
    /\ run = 2 /\ st[3] = "ready" /\ ev[3].did = {"check_dir"}
    /\ \E r \in recorded :
          r.seq = NameCaps(collected[3]) /\ res[3] = Ok(r.cap)

\* C10: a check_file that comes right after a successful add_file with the
\* same path, size, ctime and mtime returns Some of the capability added
C10_AddThenCheck ==
    (hist.op = "check_file" /\ hist.follows) => hist.res = Some(hist.cap)

\* the path was bound to another capability and the capability was known
C10_Witness ==
    /\ hist.op = "check_file" /\ hist.follows
    /\ hist.before # None /\ hist.before # Some(hist.cap) /\ hist.known
    /\ hist.res = Some(hist.cap)

\* the capability the store returned for the request of node n
StoreCap(n) ==
    IF IsDir(n) THEN StoreDirCap(DirFromIter(DirNew, collected[n]))
    ELSE StoreFileCap(n)
IndexFailed(n) == "index_err" \in ev[n].did
StoreRejected(n) == ev[n].did \cap {"put_rejected", "post_rejected"} # {}

\* C15: when the store accepted the upload of a file or directory and the
\* add_file or add_dir call that follows fails, the upload of the entry
\* resolves with the capability the store returned, the entry is in the
\* manifest its parent builds, and a run that fails has another cause.
C15_IndexErrorIsNotFatal ==
    /\ \A n \in Nodes : IndexFailed(n) =>
          /\ st[n] = "ready" /\ res[n] = Ok(StoreCap(n))
          /\ (n # Root /\ st[Parent(n)] \in {"post", "ready"}) =>
                 \E i \in DOMAIN collected[Parent(n)] :
                    NameCaps(collected[Parent(n)])[i] = <<Name(n), StoreCap(n)>>
    /\ (phase = "done" /\ runResult = "err") =>
          \/ \E n \in Nodes : StoreRejected(n)
          \/ \E r \in att : r.st = "failed"
          \/ st[Root] = "ready" /\ ~res[Root].ok /\ ~IndexFailed(Root)
C15_Witness ==
    /\ phase = "done" /\ runResult = "ok"
    /\ IndexFailed(2) /\ IndexFailed(3) /\ IndexFailed(Root)
    /\ Len(collected[Root]) = 3

\* C18: when a file grew after upload() read its metadata and called
\* check_file, and the store accepted the body, the upload resolves with the
\* capability of the bytes read and the local_files row add_file wrote for
\* the path carries the size the file has now, not the one seen before.
C18_RowCarriesNewSize ==
    \A n \in Nodes :
        (/\ st[n] = "ready" /\ "add_file" \in ev[n].did /\ ~IndexFailed(n)
         /\ ev[n].size # Meta(n).size) =>
            /\ res[n] = Ok(StoreFileCap(n))
            /\ \E r \in PathRows(db, Path(n)) : r.size = Meta(n).size
            /\ \A r \in PathRows(db, Path(n)) : r.size # ev[n].size

\* C20: an entry whose path matches an exclude glob, and everything beneath
\* it, is never passed to upload(): nothing is done for it, the index has no
\* row for it and no manifest names it; a directory all of whose entries are
\* excluded is uploaded with the empty manifest.
Skipped ==
    {n \in Nodes \ {Root} :
        GlobMatch(n) \/ \E a \in Ancestors(n) : GlobMatch(a)}
AllExcluded ==
    {d \in Nodes : ChildSet(d) # {} /\ \A c \in ChildSet(d) : GlobMatch(c)}
SkippedNames == {<<Parent(n), Name(n)>> : n \in Skipped}
C20_ExcludedNeverUploaded ==
    /\ \A n \in Skipped :
          /\ st[n] = "idle" /\ ev[n] = NoEv /\ res[n] = NoRes
          /\ PathRows(db, Path(n)) = {}
    /\ \A p \in SkippedNames :
          \A i \in DOMAIN collected[p[1]] : collected[p[1]][i][1] # p[2]
    /\ \A d \in AllExcluded :
          (IsDir(d) /\ st[d] \in {"post", "ready"} /\ ev[d].did # {}) =>
             /\ collected[d] = <<>>
             /\ st[d] = "ready" => res[d].ok
C20_Witness ==
    /\ phase = "done" /\ runResult = "ok"
    /\ IsDir(4) /\ st[4] = "ready" /\ res[4] = Ok(<<"URI:DIR">>)
    /\ "add_dir" \in ev[4].did /\ collected[4] = <<>>
    /\ st[5] = "idle" /\ st[8] = "idle" /\ st[9] = "idle"
    /\ Len(collected[Root]) = 3

(***************************************************************************)
(* Properties of Dir (SpecDir)                                             *)
(***************************************************************************)
\* C16: two Dir values built from the same ordered sequence of names and
\* capabilities have the same hash, whatever metadata their entries carry.
C16_HashIgnoresMetadata ==
    NameCaps(dirs[1].inner) = NameCaps(dirs[2].inner) =>
        DirHash(dirs[1]) = DirHash(dirs[2])
C16_Witness ==
    /\ Len(dirs[1].inner) = 1 /\ Len(dirs[2].inner) = 1
    /\ NameCaps(dirs[1].inner) = NameCaps(dirs[2].inner)
    /\ dirs[1].inner[1][2].metadata = {}
    /\ dirs[2].inner[1][2].metadata = {<<"ctime", 1>>, <<"mtime", 2>>}
    /\ DirHash(dirs[1]) = DirHash(dirs[2])

\* C17: two Dir values whose ordered sequences of (name, capability) pairs
\* differ have fed different input to the hasher, so that their hashes
\* differ (collisions of the 64-bit hash aside).
C17_DistinctContentsDistinctInput ==
    NameCaps(dirs[1].inner) # NameCaps(dirs[2].inner) =>
        DirHash(dirs[1]) # DirHash(dirs[2])

(***************************************************************************)
(* Properties of upload_file (SpecReader)                                  *)
(***************************************************************************)
\* C19: every chunk the reader thread makes is at most the buffer long; the
\* reader reads the next chunk only after the channel accepted the previous
\* one; the chunks made and not yet taken by the request are at most the
\* channel's slots plus the one in the reader's hand, whatever the length of
\* the file.
C19_BoundedChunks ==
    \A u \in Uploads :
        /\ rd[u].hand <= ChunkMax
        /\ \A i \in DOMAIN rd[u].chan : rd[u].chan[i] \in 1..ChunkMax
        /\ rd[u].produced - rd[u].accepted <= 1
        /\ rd[u].pc = "read" => rd[u].produced = rd[u].accepted
        /\ rd[u].pc = "send" =>
              rd[u].hand > 0 /\ rd[u].produced = rd[u].accepted + 1
        /\ rd[u].http = "sending" =>
              rd[u].produced - rd[u].taken <= ChanSlots + 1
        /\ Len(rd[u].chan) <= ChanSlots
C19_Witness ==
    /\ Uploads = {1}
    /\ rd[1].pc = "send" /\ rd[1].hand = ChunkMax /\ rd[1].chan = <<ChunkMax>>
    /\ rd[1].produced - rd[1].taken = ChanSlots + 1 /\ rd[1].left > 0
    /\ rd[1].http = "sending"

\* C23: when reading the file failed, upload_file does not resolve with a
\* capability: the request whose body was cut short by the read error is not
\* answered with success.
C23_ReadErrorGivesNoCap ==
    \A u \in Uploads : rd[u].err = "read" => rd[u].http # "ok"

\* C24: every reader thread that was started terminates and frees its
\* thread of the pool, no reader stays in a chunk send for ever, and with a
\* store that takes and answers every request every upload resolves and
\* every queued job runs, with more uploads in flight than the pool has
\* threads.
C24_ReadersTerminate ==
    \A u \in PoolUploads :
        /\ <>[](rd[u].pc = "done")
        /\ <>[](rd[u].http # "sending")
C24_Witness ==
    /\ Cardinality(Uploads) > PoolThreads
    /\ \A u \in Uploads : rd[u].pc = "done" /\ rd[u].http # "sending"
    /\ \E u \in Uploads : rd[u].err = "send" /\ rd[u].http = "dropped"
    /\ \E u \in Uploads : rd[u].err = "none" /\ rd[u].http = "ok"
                             /\ rd[u].produced > 1

(***************************************************************************)
(* Properties of the index (SpecDB)                                        *)
(***************************************************************************)
StaleCall ==
    /\ hist.op = "check_file" /\ hist.stored # None
    /\ hist.stored[1] # <<hist.size, hist.ctime, hist.mtime>>

\* C11: a check_file call that finds a row for the path whose size, ctime
\* or mtime differs from the arguments returns None and removes the row, and
\* a check_file call made next with the metadata the row had stored returns
\* None as well.
C11_StaleRowForgotten ==
    StaleCall =>
        /\ hist.res = None
        /\ PathRows(db, hist.path) = {}
        /\ check_file(db, hist.path, hist.stored[1][1], hist.stored[1][2],
                      hist.stored[1][3]).res = None
C11_Witness ==
    /\ StaleCall /\ hist.res = None
    /\ hist.stored[1][1] = hist.size /\ hist.stored[1][2] = hist.ctime
    /\ hist.stored[1][3] # hist.mtime
    /\ PathRows(db, hist.path) = {}

\* C12: a check_file call changes the index only when it finds a stale row,
\* and then only by removing the local_files row of the queried path; caps,
\* directories, last_upload and the rows of other paths are never changed.
C12_CheckFileFrame ==
    [][hist'.op = "check_file" =>
        LET stale == /\ hist'.stored # None
                     /\ hist'.stored[1] #
                            <<hist'.size, hist'.ctime, hist'.mtime>>
        IN  /\ db'.caps = db.caps
            /\ db'.directories = db.directories
            /\ db'.last_upload = db.last_upload
            /\ \A r \in db.local_files :
                   r.path # hist'.path => r \in db'.local_files
            /\ db'.local_files \subseteq db.local_files
            /\ IF stale
               THEN db'.local_files =
                        db.local_files \ PathRows(db, hist'.path)
               ELSE db' = db]_vars
C12_Witness ==
    /\ StaleCall
    /\ \E r \in db.local_files : r.path # hist.path /\ r.fileid = 1
    /\ Cardinality(db.caps) = 1 /\ db.last_upload # {}
    /\ db.directories # {}

\* C13: add_file called again with the arguments of a call that succeeded
\* does not fail and leaves the index as the first call left it: the same
\* caps rows, the same local_files rows, the same answer to every
\* check_file query.
C13_AddFileIdempotent ==
    (hist.op = "add_file" /\ hist.ok) =>
        LET again == add_file(db, hist.cap, hist.path, hist.size, hist.ctime,
                              hist.mtime, "none")
        IN  /\ again.ok
            /\ again.db.caps = db.caps
            /\ again.db.local_files = db.local_files
            /\ Cardinality(PathRows(again.db, hist.path)) = 1
            /\ \A path \in HarnessPaths, m \in HarnessMetas :
                   check_file(again.db, path, m[1], m[2], m[3]).res =
                       check_file(db, path, m[1], m[2], m[3]).res
C13_Witness ==
    /\ hist.op = "add_file" /\ hist.ok /\ hist.known
    /\ hist.before # None /\ hist.before # Some(hist.cap)
    /\ Cardinality(db.caps) = 2 /\ Cardinality(db.local_files) = 2

\* C14: after any sequence of add_file and check_file calls, failed ones
\* included, every local_files row refers to a caps row, no path has two
\* local_files rows and no capability string has two caps rows.
C14_IndexWellFormed ==
    /\ \A r \in db.local_files : \E c \in db.caps : c.fileid = r.fileid
    /\ \A r1, r2 \in db.local_files : r1.path = r2.path => r1 = r2
    /\ \A c1, c2 \in db.caps : c1.filecap = c2.filecap => c1 = c2
    /\ \A c1, c2 \in db.caps : c1.fileid = c2.fileid => c1 = c2
C14_Witness ==
    /\ hist.op = "add_file" /\ ~hist.ok /\ hist.before # None
    /\ PathRows(db, hist.path) = {}
    /\ Cardinality(db.caps) = 2 /\ db.local_files # {}
\* C21: an add_file call that fails leaves nothing of its earlier steps to
\* be seen: the path is bound to the capability it was bound to before the
\* call, and a capability that was not in caps before is not in caps after.
C21_FailedAddFileLeavesNoTrace ==
    (hist.op = "add_file" /\ ~hist.ok) =>
        /\ BoundCap(db, hist.path) =
              {hist.before[i] : i \in DOMAIN hist.before}
        /\ ~hist.known => ~CapsUnique(db.caps, hist.cap)

\* C22: after any sequence of successful add_file calls (and check_file
\* calls), every capability that was added has exactly one last_upload row.
C22_OneLastUploadPerCap ==
    \A c \in db.caps :
        Cardinality({u \in db.last_upload : u.fileid = c.fileid}) = 1
====
